---- MODULE Spec2Model ----
(***************************************************************************)
(* Model of cmd/flux/reconcile_source_bucket.go: the command that stamps   *)
(* a reconcile-request annotation on a Bucket, then polls the API server   *)
(* until status.lastHandledReconcileAt changes, and finally inspects the   *)
(* Ready condition of the last object it fetched.                          *)
(*                                                                         *)
(* Time is counted in ticks of 10ms (the retry.DefaultBackoff duration).   *)
(* API round trips take no time; time passes only while the command        *)
(* sleeps (retry backoff, poll interval).  The API server, the controller  *)
(* and other clients act between any two store operations of the command.  *)
(***************************************************************************)
EXTENDS Integers, Sequences, FiniteSets, TLC

\* ---------------------------------------------------------------- bounds
\* rootArgs.timeout, in ticks
Timeout == 5
\* rootArgs.pollInterval, in ticks
PollInterval == 2
\* the API server accepts writes until the resourceVersion reaches this value
MaxVersion == 5
\* the owner changes the spec until the generation reaches this value
MaxGeneration == 2

\* ------------------------------------------------------ program constants
\* retry.DefaultBackoff.Steps
BackoffSteps == 4
\* retry.DefaultBackoff.Duration (10ms = one tick, Factor 1.0)
BackoffDuration == 1
\* ticks per second of the wall clock
TicksPerSecond == 100

\* meta.ReconcileRequestAnnotation
ReconcileRequestAnnotation == "reconcile.fluxcd.io/requestedAt"
\* an annotation the command does not own
OwnerAnnotation == "owner"
\* meta.ReadyCondition statuses; "" stands for "no Ready condition"
ConditionTrue == "True"
ConditionFalse == "False"
ConditionUnknown == "Unknown"
NoCondition == ""
\* messages the controller puts on a Ready=False condition
Messages == {"fetch failed"}
\* revisions the controller puts on status.artifact; NoArtifact is the nil pointer
Revisions == {"rev2"}
NoArtifact == "<nil>"

\* errors
ErrNameRequired == "source name is required"
ErrNoClient == "kubeconfig not found"
ErrSuspended == "resource is suspended"
ErrReconcileFailed == "Bucket source reconciliation failed"
ErrWaitTimeout == "timed out waiting for the condition"
ErrDeadlineExceeded == "context deadline exceeded"
ErrNotFound == "not found"
ErrConflict == "the object has been modified"
ErrUnavailable == "service unavailable"
NoError == "<nil>"
ErrNilPointer == "invalid memory address or nil pointer dereference"

\* ------------------------------------------------------- pure functions
\* the digits of n (0 <= n < 100) as two characters
TwoDigits(n) == IF n < 10 THEN "0" \o ToString(n) ELSE ToString(n)

\* the fraction of a second, trailing zeros removed (layout ".999999999")
Fraction(c) ==
    IF c = 0 THEN ""
    ELSE IF c % 10 = 0 THEN "." \o ToString(c \div 10)
    ELSE "." \o TwoDigits(c)

\* time.Now().Format(time.RFC3339Nano) at tick t of the wall clock
RFC3339Nano(t) ==
    "2024-01-01T00:00:" \o TwoDigits(t \div TicksPerSecond)
        \o Fraction(t % TicksPerSecond) \o "Z"

\* line 136: the predicate of the poll
HandledWrong(snapshotHandledAt, baseline) == TRUE
HandledNonEmpty(snapshotHandledAt, baseline) ==
    snapshotHandledAt # baseline /\ baseline # ""
Handled(snapshotHandledAt, baseline) == snapshotHandledAt # baseline

\* apierrors.IsConflict, the retriable test of retry.RetryOnConflict
IsConflictWrong(e) == e \in {ErrConflict, ErrUnavailable}
IsConflict(e) == e = ErrConflict

\* apimeta.IsStatusConditionFalse(conditions, meta.ReadyCondition)
IsStatusConditionFalse(obj) == obj.ready = ConditionFalse

\* a condition message that holds a percent sign (an escaped object key)
EscapedMessage == "bucket 'a%2Fb' not found"

\* line 122: fmt.Errorf(c.Message) takes the message as its format; a
\* verb in it finds no operand and is printed as %!verb(MISSING)
Errorf(format) ==
    IF format = EscapedMessage THEN "bucket 'a%!F(MISSING)b' not found"
    ELSE format

\* lines 112-125: what the condition of isBucketReady returns for a
\* fetched Bucket
IsBucketReady(obj) ==
    IF obj.generation # obj.observedGeneration
    THEN [done |-> FALSE, err |-> NoError]
    ELSE IF obj.ready = ConditionTrue
    THEN [done |-> TRUE, err |-> NoError]
    ELSE IF obj.ready = ConditionFalse
    THEN [done |-> FALSE, err |-> Errorf(obj.message)]
    ELSE [done |-> FALSE, err |-> NoError]

\* line 77: bucket.Spec.Suspend
SuspendedWrong(obj) == FALSE
Suspended(obj) == obj.suspend

\* wait.ExponentialBackoff: "if backoff.Steps == 1 { break }"
ExhaustedWrong(s) == s = 0
Exhausted(s) == s = 1

\* the annotation map after lines 146-152; NoAnnotations is the nil map
NoAnnotations == << >>
SetAnnotationWrong(annotations, key, value) ==
    IF DOMAIN annotations = {}
        THEN [k \in {key} |-> value]
        ELSE annotations
SetAnnotationFresh(annotations, key, value) == [k \in {key} |-> value]
SetAnnotation(annotations, key, value) ==
    IF DOMAIN annotations = {}
        THEN [k \in {key} |-> value]
        ELSE [k \in DOMAIN annotations \cup {key} |->
                 IF k = key THEN value ELSE annotations[k]]

\* meta.ReconcileAnnotationValue
AnnotationValue(annotations, key) ==
    IF key \in DOMAIN annotations THEN annotations[key] ELSE ""

\* ------------------------------------------------------------ the store
\* a trigger marker left by an earlier invocation
PriorMarker == "2023-12-31T23:59:59Z"
\* a trigger marker written by another client while the command runs
OtherMarker == "2024-01-01T00:00:00.005Z"

\* the zero value of sourcev1.Bucket (line 71)
ZeroBucket ==
    [exists |-> FALSE, resourceVersion |-> 0, generation |-> 0,
     annotations |-> NoAnnotations, suspend |-> FALSE,
     observedGeneration |-> 0, ready |-> NoCondition, message |-> "",
     lastHandledReconcileAt |-> "", artifact |-> NoArtifact]

\* a Bucket that no controller has reconciled yet
NewBucket ==
    [ZeroBucket EXCEPT !.exists = TRUE, !.resourceVersion = 1, !.generation = 1]

\* a Bucket the controller reconciled successfully
ReadyBucket ==
    [NewBucket EXCEPT !.observedGeneration = 1, !.ready = ConditionTrue,
                      !.artifact = "rev1"]

\* the states of the stored Bucket when the command starts
InitialStores ==
    {ZeroBucket, NewBucket,
     [NewBucket EXCEPT !.suspend = TRUE],
     [ReadyBucket EXCEPT !.suspend = TRUE,
                         !.annotations = [k \in {OwnerAnnotation} |-> "team-a"]],
     [ReadyBucket EXCEPT !.annotations = [k \in {OwnerAnnotation} |-> "team-a"]],
     [ReadyBucket EXCEPT
         !.annotations = [k \in {ReconcileRequestAnnotation} |-> PriorMarker],
         !.lastHandledReconcileAt = PriorMarker],
     [ReadyBucket EXCEPT
         !.annotations = [k \in {ReconcileRequestAnnotation} |-> PriorMarker]],
     [ReadyBucket EXCEPT !.suspend = TRUE, !.ready = ConditionFalse,
                         !.message = EscapedMessage]}

\* ---------------------------------------------------------------- state
VARIABLES
    store,                  \* the Bucket as the API server holds it
    now,                    \* ticks since the command started
    pc,                     \* where reconcileSourceBucketCmdRun is
    bucket,                 \* var bucket sourcev1.Bucket (line 71)
    lastHandledReconcileAt, \* the local of line 81
    steps,                  \* backoff.Steps of the running RetryOnConflict
    wakeAt,                 \* when the current sleep ends
    nextTick,               \* when the poll ticker fires next
    pollTimer,              \* when the poll timer closes the channel
    err,                    \* the error returned by the command
    output,                 \* the revision logged at line 100
    attempts,               \* history: calls of the closure of line 142
    updates,                \* history: Update calls issued by the command
    written,                \* history: markers the command stored
    failedMarkers,          \* history: markers computed in failed attempts
    fetches,                \* history: calls of the poll condition
    sleeps,                 \* history: interval suspensions of the poll
    acked,                  \* history: the store's lastHandledReconcileAt
                            \*   differed from the baseline after line 81
    ackedSinceWrite,        \* history: the controller changed
                            \*   lastHandledReconcileAt after the command's Update
    fetchErr,               \* history: the error of a failed Get of the poll
    firstVersion            \* history: the resourceVersion the first attempt
                            \*   fetched, while requestBucketReconciliation runs

vars == <<store, now, pc, bucket, lastHandledReconcileAt, steps, wakeAt,
          nextTick, pollTimer, err, output, attempts, updates, written,
          failedMarkers, fetches, sleeps, acked, ackedSinceWrite, fetchErr,
          firstVersion>>

progVars == <<pc, bucket, lastHandledReconcileAt, steps, wakeAt, nextTick,
              pollTimer, err, output, attempts, updates, written,
              failedMarkers, fetches, sleeps, fetchErr, firstVersion>>

\* line 59: context.WithTimeout, taken at tick 0
ctxDeadline == 0 + Timeout

\* kubeClient.Get(ctx, ...): the errors the call can return now
GetErrorsNoDeadline ==
    IF store.exists THEN {NoError, ErrUnavailable} ELSE {ErrNotFound}
GetErrors ==
    IF now >= ctxDeadline THEN {ErrDeadlineExceeded}
    ELSE IF store.exists THEN {NoError, ErrUnavailable}
    ELSE {ErrNotFound}

\* kubeClient.Update(ctx, obj): the errors the call can return now
UpdateErrorsWrong(obj) ==
    IF now >= ctxDeadline THEN {ErrDeadlineExceeded}
    ELSE IF ~store.exists THEN {ErrNotFound}
    ELSE {NoError, ErrConflict, ErrUnavailable}
UpdateErrors(obj) ==
    IF now >= ctxDeadline THEN {ErrDeadlineExceeded}
    ELSE IF ~store.exists THEN {ErrNotFound}
    ELSE IF obj.resourceVersion # store.resourceVersion THEN {ErrConflict, ErrUnavailable}
    ELSE {NoError, ErrUnavailable}

\* the stored Bucket after a successful Update of obj: metadata and spec
\* are replaced, the status subresource is left alone
Updated(obj) ==
    [store EXCEPT !.annotations = obj.annotations,
                  !.suspend = obj.suspend,
                  !.resourceVersion = @ + 1]

Min(a, b) == IF a < b THEN a ELSE b

Init ==
    /\ store \in InitialStores
    /\ now = 0
    /\ pc = "start"
    /\ bucket = ZeroBucket
    /\ lastHandledReconcileAt = ""
    /\ steps = 0
    /\ wakeAt = 0
    /\ nextTick = 0
    /\ pollTimer = 0
    /\ err = NoError
    /\ output = ""
    /\ attempts = 0
    /\ updates = 0
    /\ written = << >>
    /\ failedMarkers = {}
    /\ fetches = 0
    /\ sleeps = 0
    /\ acked = FALSE
    /\ ackedSinceWrite = FALSE
    /\ fetchErr = NoError
    /\ firstVersion = 0

\* return e (or panic with e)
Finish(e) ==
    /\ pc' = "done"
    /\ err' = e

\* lines 53-81: arguments, context, client, first Get, suspend check, baseline
Start ==
    /\ pc = "start"
    /\ \E args \in {<< >>, <<"podinfo">>}, clientErr \in {NoError, ErrNoClient},
          e \in GetErrors :
          IF Len(args) < 1
          THEN Finish(ErrNameRequired) /\ UNCHANGED <<bucket, lastHandledReconcileAt, steps>>
          ELSE IF clientErr # NoError
          THEN Finish(clientErr) /\ UNCHANGED <<bucket, lastHandledReconcileAt, steps>>
          ELSE IF e # NoError
          THEN Finish(e) /\ UNCHANGED <<bucket, lastHandledReconcileAt, steps>>
          ELSE /\ bucket' = store
               /\ IF Suspended(store)
                  THEN Finish(ErrSuspended) /\ UNCHANGED <<lastHandledReconcileAt, steps>>
                  ELSE /\ lastHandledReconcileAt' = store.lastHandledReconcileAt
                       /\ steps' = BackoffSteps
                       /\ pc' = "request"
                       /\ UNCHANGED err
    /\ UNCHANGED <<store, now, wakeAt, nextTick, pollTimer, output, attempts,
                   updates, written, failedMarkers, fetches, sleeps, acked, ackedSinceWrite,
                   fetchErr, firstVersion>>

\* line 143: the Get of one attempt of the closure run by RetryOnConflict
RequestGet ==
    /\ pc = "request"
    /\ attempts' = attempts + 1
    /\ \E e \in GetErrors :
          IF e # NoError
          THEN Finish(e) /\ firstVersion' = 0 /\ UNCHANGED bucket
          ELSE /\ bucket' = store
               /\ firstVersion' = IF attempts = 0 THEN store.resourceVersion
                                                  ELSE firstVersion
               /\ pc' = "update"
               /\ UNCHANGED err
    /\ UNCHANGED <<store, now, lastHandledReconcileAt, steps, wakeAt, nextTick,
                   pollTimer, output, updates, written, failedMarkers,
                   fetches, sleeps, acked, ackedSinceWrite, fetchErr>>

\* line 142: RetryOnConflict returns as soon as the closure returns nil,
\* and line 89 follows
AfterUpdateOKWrong == "request"
AfterUpdateOK == "poll"

\* lines 146-153: stamp the annotation and Update; line 142: what
\* retry.RetryOnConflict does with the closure's result
RequestUpdate ==
    /\ pc = "update"
    /\ updates' = updates + 1
    /\ LET marker == RFC3339Nano(now)
           stamped == [bucket EXCEPT !.annotations =
                          SetAnnotation(@, ReconcileRequestAnnotation, marker)]
       IN \E e \in UpdateErrors(stamped) :
             IF e = NoError
             THEN /\ store' = Updated(stamped)
                  /\ bucket' = store'
                  /\ written' = Append(written, marker)
                  /\ pc' = AfterUpdateOK
                  /\ firstVersion' = 0
                  /\ UNCHANGED <<err, steps, wakeAt, failedMarkers>>
             ELSE /\ bucket' = stamped
                  /\ failedMarkers' = failedMarkers \cup {marker}
                  /\ UNCHANGED <<store, written>>
                  /\ IF IsConflict(e) /\ ~Exhausted(steps)
                     THEN /\ steps' = steps - 1
                          /\ wakeAt' = now + BackoffDuration
                          /\ pc' = "backoff"
                          /\ UNCHANGED <<err, firstVersion>>
                     ELSE /\ Finish(e)
                          /\ firstVersion' = 0
                          /\ UNCHANGED <<steps, wakeAt>>
    /\ UNCHANGED <<now, lastHandledReconcileAt, nextTick, pollTimer, output,
                   attempts, fetches, sleeps, acked, ackedSinceWrite,
                   fetchErr>>

\* wait.ExponentialBackoff: time.Sleep(backoff.Step()) is over
BackoffWake ==
    /\ pc = "backoff"
    /\ now = wakeAt
    /\ pc' = "request"
    /\ UNCHANGED <<store, now, bucket, lastHandledReconcileAt, steps, wakeAt,
                   nextTick, pollTimer, err, output, attempts, updates,
                   written, failedMarkers, fetches, sleeps, acked, ackedSinceWrite,
                   fetchErr, firstVersion>>

\* line 91: the baseline handed to bucketReconciliationHandled is the local
\* of line 81, not the field of the object the fetches overwrite
BaselineWrong == bucket.lastHandledReconcileAt
Baseline == lastHandledReconcileAt

\* lines 131-137: one call of the condition, then what the poll does with
\* its result; onFalse is the poll's step when the condition is not yet met
ConditionSwallow(onFalse) ==
    /\ fetches' = fetches + 1
    /\ \E e \in GetErrors :
          IF e # NoError
          THEN fetchErr' = e /\ UNCHANGED bucket /\ onFalse
          ELSE /\ bucket' = store
               /\ UNCHANGED fetchErr
               /\ IF Handled(store.lastHandledReconcileAt, Baseline)
                  THEN pc' = "evaluate" /\ UNCHANGED <<err, nextTick, pollTimer, wakeAt>>
                  ELSE onFalse
    /\ UNCHANGED <<store, now, lastHandledReconcileAt, steps, output, attempts,
                   updates, written, failedMarkers, acked, ackedSinceWrite,
                   firstVersion>>
Condition(onFalse) ==
    /\ fetches' = fetches + 1
    /\ \E e \in GetErrors :
          IF e # NoError
          THEN /\ fetchErr' = e
               /\ Finish(e)
               /\ UNCHANGED <<bucket, nextTick, pollTimer, wakeAt>>
          ELSE /\ bucket' = store
               /\ UNCHANGED fetchErr
               /\ IF Handled(store.lastHandledReconcileAt, Baseline)
                  THEN pc' = "evaluate" /\ UNCHANGED <<err, nextTick, pollTimer, wakeAt>>
                  ELSE onFalse
    /\ UNCHANGED <<store, now, lastHandledReconcileAt, steps, output, attempts,
                   updates, written, failedMarkers, acked, ackedSinceWrite,
                   firstVersion>>

\* wait.Poll in the place of wait.PollImmediate: the first check waits an interval
PollDelayed ==
    /\ pc = "poll"
    /\ pc' = "wait"
    /\ nextTick' = now + PollInterval
    /\ pollTimer' = now + Timeout
    /\ wakeAt' = Min(now + PollInterval, now + Timeout)
    /\ UNCHANGED <<store, now, bucket, lastHandledReconcileAt, steps, err,
                   output, attempts, updates, written, failedMarkers,
                   fetches, sleeps, acked, ackedSinceWrite,
                   fetchErr, firstVersion>>

\* lines 89-91: wait.PollImmediate runs the condition before any wait, then
\* starts the ticker (interval) and the timer (timeout)
PollImmediate ==
    /\ pc = "poll"
    /\ Condition(/\ pc' = "wait"
                 /\ nextTick' = now + PollInterval
                 /\ pollTimer' = now + Timeout
                 /\ wakeAt' = Min(now + PollInterval, now + Timeout)
                 /\ UNCHANGED err)
    /\ UNCHANGED sleeps

\* wait.WaitFor: the ticker fired, the condition runs again
PollTick ==
    /\ pc = "wait"
    /\ now = nextTick
    /\ now <= pollTimer
    /\ sleeps' = sleeps + 1
    /\ Condition(/\ nextTick' = now + PollInterval
                 /\ wakeAt' = Min(now + PollInterval, pollTimer)
                 /\ UNCHANGED <<pc, err, pollTimer>>)

\* wait.WaitFor: the timer closed the channel; the condition runs once more
\* and the poll gives up with ErrWaitTimeout if it is still not met
PollClosed ==
    /\ pc = "wait"
    /\ now = pollTimer
    /\ sleeps' = IF nextTick < now + PollInterval THEN sleeps + 1 ELSE sleeps
    /\ Condition(Finish(ErrWaitTimeout) /\ UNCHANGED <<nextTick, pollTimer, wakeAt>>)

\* lines 95-101: the Ready condition and the artifact of the last fetch
Evaluate ==
    /\ pc = "evaluate"
    /\ IF IsStatusConditionFalse(bucket)
       THEN Finish(ErrReconcileFailed) /\ UNCHANGED output
       ELSE IF bucket.artifact = NoArtifact
       THEN Finish(ErrNilPointer) /\ UNCHANGED output
       ELSE Finish(NoError) /\ output' = bucket.artifact
    /\ UNCHANGED <<store, now, bucket, lastHandledReconcileAt, steps, wakeAt,
                   nextTick, pollTimer, attempts, updates, written,
                   failedMarkers, fetches, sleeps, acked, ackedSinceWrite,
                   fetchErr, firstVersion>>

\* time passes while the command sleeps
Tick ==
    /\ pc \in {"backoff", "wait"}
    /\ now < wakeAt
    /\ now' = now + 1
    /\ UNCHANGED <<store, progVars, acked, ackedSinceWrite>>

\* ------------------------------------------------- the other actors
\* the API server accepts one more write from another actor; writes that
\* the command can no longer read (after its last Get) are left out
Writable ==
    /\ pc \notin {"start", "evaluate", "done"}
    /\ store.exists
    /\ store.resourceVersion < MaxVersion

\* the Ready conditions the controller reports
Conditions ==
    {[ready |-> ConditionTrue, message |-> ""],
     [ready |-> ConditionUnknown, message |-> ""]}
    \cup {[ready |-> ConditionFalse, message |-> m] : m \in Messages}

\* the controller patches the status: it records the trigger marker it
\* read from the annotation, the generation it observed, its Ready
\* condition and its artifact
ControllerUpdateStatus ==
    /\ Writable
    /\ ~store.suspend
    /\ \E h \in {store.lastHandledReconcileAt}
                  \cup {store.annotations[k] :
                          k \in DOMAIN store.annotations \cap {ReconcileRequestAnnotation}},
          og \in {store.observedGeneration, store.generation},
          c \in Conditions,
          a \in {store.artifact} \cup Revisions :
          /\ store' = [store EXCEPT !.lastHandledReconcileAt = h,
                                    !.observedGeneration = og,
                                    !.ready = c.ready,
                                    !.message = c.message,
                                    !.artifact = a,
                                    !.resourceVersion = @ + 1]
          /\ acked' = (acked \/ h # lastHandledReconcileAt)
          /\ ackedSinceWrite' =
                 (ackedSinceWrite
                    \/ (Len(written) > 0 /\ h # store.lastHandledReconcileAt))
    /\ UNCHANGED <<now, progVars>>

\* another client (a second invocation of the command) stamps its marker
OtherClientAnnotate ==
    /\ Writable
    /\ store' = [store EXCEPT
                    !.annotations = SetAnnotation(@, ReconcileRequestAnnotation, OtherMarker),
                    !.resourceVersion = @ + 1]
    /\ UNCHANGED <<now, progVars, acked, ackedSinceWrite>>

\* the owner changes the spec: a new generation
OwnerUpdateSpec ==
    /\ Writable
    /\ store.generation < MaxGeneration
    /\ store' = [store EXCEPT !.generation = @ + 1,
                              !.resourceVersion = @ + 1]
    /\ UNCHANGED <<now, progVars, acked, ackedSinceWrite>>

\* the owner deletes the Bucket
OwnerDelete ==
    /\ Writable
    /\ store' = ZeroBucket
    /\ UNCHANGED <<now, progVars, acked, ackedSinceWrite>>

Next ==
    \/ Start
    \/ RequestGet
    \/ RequestUpdate
    \/ BackoffWake
    \/ PollImmediate
    \/ PollTick
    \/ PollClosed
    \/ Evaluate
    \/ Tick
    \/ ControllerUpdateStatus
    \/ OtherClientAnnotate
    \/ OwnerUpdateSpec
    \/ OwnerDelete

Spec == Init /\ [][Next]_vars

\* the command is scheduled and its sleeps end; the other actors owe nothing
Command ==
    \/ Start
    \/ RequestGet
    \/ RequestUpdate
    \/ BackoffWake
    \/ PollImmediate
    \/ PollTick
    \/ PollClosed
    \/ Evaluate
    \/ Tick

LiveSpec == Spec /\ WF_vars(Command)

\* --------------------------------------------------- terminal states
\* the terminal state of section 4.4 that a return value stands for
Result ==
    IF pc # "done" THEN "Running"
    ELSE IF err = NoError THEN "Succeeded"
    ELSE IF err = ErrSuspended THEN "Rejected"
    ELSE IF err \in {ErrWaitTimeout, ErrDeadlineExceeded} THEN "TimedOut"
    ELSE IF err = ErrNilPointer THEN "Panicked"
    ELSE "Failed"

TypeOK ==
    /\ pc \in {"start", "request", "update", "backoff", "poll", "wait", "evaluate", "done"}
    /\ now \in 0..(Timeout + PollInterval)
    /\ steps \in 0..BackoffSteps

\* the poll returned nil and lines 95-101 ran
Evaluated == pc = "done" /\ err \in {NoError, ErrReconcileFailed, ErrNilPointer}

\* the marker the stored Bucket carries
StoredMarker == AnnotationValue(store.annotations, ReconcileRequestAnnotation)

\* ------------------------------------------------------------- claims

\* C1: the command succeeds only if the last snapshot it fetched has
\* observedGeneration = generation and Ready = True.
C1_SucceededOnlyIfReady ==
    Result = "Succeeded" =>
        /\ bucket.observedGeneration = bucket.generation
        /\ bucket.ready = ConditionTrue

\* C2: when the Bucket fetched at line 72 is suspended the command ends in
\* Rejected and never calls Update.
C2_SuspendedRejected ==
    /\ (pc # "start" /\ attempts = 0 /\ bucket.exists /\ bucket.suspend) =>
           Result = "Rejected"
    /\ Result = "Rejected" =>
           (updates = 0 /\ attempts = 0 /\ Len(written) = 0 /\ fetches = 0)

C2_Witness == Result = "Rejected" /\ bucket.exists /\ bucket.suspend

\* C3: when the last snapshot has Ready = False with message m for the
\* current generation, the command ends in Failed and its error is m.
C3_FailedCarriesMessage ==
    (/\ Evaluated
     /\ bucket.observedGeneration = bucket.generation
     /\ bucket.ready = ConditionFalse) =>
        (Result = "Failed" /\ err = bucket.message)

\* C4: from lastHandledReconcileAt = "", once a poll fetch shows a new
\* lastHandledReconcileAt with observedGeneration = generation and
\* Ready = True, the command ends in Succeeded.
C4_ScenarioA ==
    (/\ Evaluated
     /\ lastHandledReconcileAt = ""
     /\ bucket.observedGeneration = bucket.generation
     /\ bucket.ready = ConditionTrue) =>
        Result = "Succeeded"

\* the command got past line 79 and no Get or Update of it failed for
\* a reason other than the deadline
NoStoreFailure ==
    /\ err \notin {ErrNameRequired, ErrNoClient, ErrSuspended,
                   ErrNotFound, ErrUnavailable, ErrConflict}
    /\ failedMarkers = {}

\* C5: when the controller never changes lastHandledReconcileAt from the
\* baseline and no store operation fails, the command ends in TimedOut,
\* inside the poll, and the error is the deadline's, not the predicate's.
C5_NeverHandledTimesOut ==
    <>(/\ pc = "done"
       /\ (~acked /\ NoStoreFailure) =>
              /\ Result = "TimedOut"
              /\ fetches > 0
              /\ err \in {ErrWaitTimeout, ErrDeadlineExceeded})

C5_Witness ==
    /\ pc = "done"
    /\ ~acked
    /\ NoStoreFailure
    /\ Result = "TimedOut"
    /\ fetches > 1

\* C6: a run that has ended is in one of Rejected, Failed, TimedOut,
\* Succeeded.
C6_TerminalStates ==
    pc = "done" => Result \in {"Rejected", "Failed", "TimedOut", "Succeeded"}

\* C7: after a successful poll whose last snapshot is not Ready = False the
\* command ends in Succeeded, with or without an artifact, and reports the
\* revision of the artifact when there is one.
C7_ArtifactOptional ==
    (Evaluated /\ ~IsStatusConditionFalse(bucket)) =>
        /\ Result = "Succeeded"
        /\ bucket.artifact # NoArtifact => output = bucket.artifact

\* C8: when an Update succeeds after earlier attempts met a Conflict, the
\* attempt worked on a fresh fetch, the call returns nil, and the stored
\* marker is the one computed in that attempt, not one of a failed attempt.
C8_RetryStoresOwnMarker ==
    [][(pc = "update" /\ pc' = "poll" /\ failedMarkers # {}) =>
          /\ bucket.resourceVersion = store.resourceVersion
          /\ attempts = updates'
          /\ err' = NoError
          /\ AnnotationValue(store'.annotations, ReconcileRequestAnnotation)
                = written'[Len(written')]
          /\ written'[Len(written')] = RFC3339Nano(now)
          /\ written'[Len(written')] \notin failedMarkers']_vars

C8_Witness ==
    /\ pc = "poll"
    /\ failedMarkers # {}
    /\ Len(written) = 1
    /\ StoredMarker = written[1]

\* C9: the call makes at most BackoffSteps attempts; when all of them meet
\* a Conflict it returns the Conflict error, none of its markers is in the
\* store, and the command ends in Failed without polling.
C9_ConflictExhausted ==
    /\ attempts <= BackoffSteps
    /\ updates <= attempts
    /\ Cardinality(failedMarkers) = BackoffSteps =>
           (pc = "done" /\ Len(written) = 0 /\ fetches = 0)
    /\ (pc = "done" /\ err = ErrConflict) =>
           /\ updates = BackoffSteps
           /\ Cardinality(failedMarkers) = BackoffSteps
           /\ Len(written) = 0
           /\ StoredMarker \notin failedMarkers
           /\ fetches = 0
           /\ Result = "Failed"

C9_Witness ==
    /\ pc = "done"
    /\ err = ErrConflict
    /\ updates = BackoffSteps
    /\ StoredMarker \notin failedMarkers

\* C10: the poll checks before it waits: a poll that succeeds on its Nth
\* fetch has made N fetches and N-1 suspensions, N-1 intervals after it
\* began, and fetches no more afterwards.
C10_PollImmediate ==
    /\ (pc = "wait" \/ fetches > 0) => sleeps <= fetches - 1
    /\ (pc = "evaluate" \/ Evaluated) =>
           /\ fetches >= 1
           /\ sleeps = fetches - 1
    /\ (pc = "evaluate" /\ fetches > 1) =>
           now = (pollTimer - Timeout) + (fetches - 1) * PollInterval

C10_Witness == pc = "evaluate" /\ fetches = 3 /\ sleeps = 2

\* C11: a Get of the poll that fails ends the poll and the command with that
\* error: no later fetch, no success, and Failed when the store failed.
C11_FetchErrorAborts ==
    fetchErr # NoError =>
        /\ pc = "done"
        /\ err = fetchErr
        /\ Result # "Succeeded"
        /\ fetchErr \in {ErrNotFound, ErrUnavailable} => Result = "Failed"

C11_Witness ==
    /\ pc = "done"
    /\ fetchErr = ErrUnavailable
    /\ fetches >= 2
    /\ Result = "Failed"

\* C12: a poll fetch satisfies the condition exactly when the fetched
\* lastHandledReconcileAt differs from the baseline.
C12_HandledIffChanged ==
    [][(pc \in {"poll", "wait"} /\ fetches' = fetches + 1 /\ fetchErr' = NoError) =>
          ((pc' = "evaluate") <=>
              (bucket'.lastHandledReconcileAt # lastHandledReconcileAt))]_vars

C12_Witness ==
    /\ pc = "evaluate"
    /\ lastHandledReconcileAt = ""
    /\ bucket.lastHandledReconcileAt # ""

\* the outcomes of the readiness evaluation of section 4.3
Pending == [done |-> FALSE, err |-> NoError]
Ready == [done |-> TRUE, err |-> NoError]
Failed(message) == [done |-> FALSE, err |-> message]

\* the readiness evaluation of section 4.3 agrees with isBucketReady on obj
ReadinessAgrees(obj) ==
    IsBucketReady(obj) =
        IF obj.observedGeneration # obj.generation THEN Pending
        ELSE IF obj.ready = ConditionTrue THEN Ready
        ELSE IF obj.ready = ConditionFalse THEN Failed(obj.message)
        ELSE Pending

\* C13: for every fetched Bucket isBucketReady gives Pending for a stale
\* observedGeneration, and for the current generation Ready on True,
\* Failed(message) on False, Pending when the Ready condition is absent or
\* Unknown.
C13_ReadinessState == bucket.exists => ReadinessAgrees(bucket)

\* C14: the baseline is the lastHandledReconcileAt of the fetch of line 72;
\* no later fetch alters it, a poll that waits on has seen exactly the
\* baseline, and the poll never succeeds while the controller did nothing.
C14_BaselineCaptured ==
    [][/\ pc = "start" /\ pc' = "request" =>
              lastHandledReconcileAt' = store.lastHandledReconcileAt
       /\ pc # "start" => lastHandledReconcileAt' = lastHandledReconcileAt
       /\ pc' = "wait" =>
              bucket'.lastHandledReconcileAt = lastHandledReconcileAt'
       /\ ~acked' => pc' # "evaluate"]_vars

C14_Witness ==
    /\ pc = "wait"
    /\ ~acked
    /\ fetches >= 2
    /\ Len(written) = 1
    /\ attempts >= 2
    /\ bucket.lastHandledReconcileAt = lastHandledReconcileAt

\* C15: only a Conflict on the Update leads to another attempt; a failed Get
\* or any other failed Update ends the call and the command with that error,
\* before any poll.
C15_OnlyConflictRetries ==
    [][/\ (pc = "update" /\ pc' = "backoff") =>
              bucket.resourceVersion # store.resourceVersion
       /\ (pc = "request" /\ attempts' # attempts) => pc' \in {"update", "done"}
       /\ (pc \in {"request", "update"} /\ pc' = "done") =>
              /\ err' # NoError
              /\ fetches' = 0
              /\ store' = store
              /\ err' \in {ErrNotFound, ErrUnavailable} => Result' = "Failed"
       /\ pc = "done" => (attempts' = attempts /\ updates' = updates)]_vars

C15_Witness ==
    /\ pc = "done"
    /\ err = ErrUnavailable
    /\ attempts = 1
    /\ updates = 1
    /\ fetches = 0

\* C16: a successful Update changes the reconcile-request annotation and the
\* resourceVersion of the stored Bucket and nothing else.
C16_OnlyTheAnnotation ==
    [][(pc = "update" /\ Len(written') = Len(written) + 1) =>
          store' = [store EXCEPT
                       !.annotations =
                           [k \in DOMAIN store.annotations \cup {ReconcileRequestAnnotation} |->
                               IF k = ReconcileRequestAnnotation
                               THEN written'[Len(written')]
                               ELSE store.annotations[k]],
                       !.resourceVersion = @ + 1]]_vars

C16_Witness ==
    /\ pc = "poll"
    /\ Len(written) = 1
    /\ failedMarkers # {}
    /\ OwnerAnnotation \in DOMAIN store.annotations
    /\ store.artifact = "rev2"

\* C17: at most one Update of an invocation succeeds, it is the last Update
\* the invocation issues, and an invocation that polls has made exactly one.
C17_OneRequest ==
    /\ Len(written) <= 1
    /\ Len(written) = 1 => updates = Cardinality(failedMarkers) + 1
    /\ (pc \in {"poll", "wait", "evaluate"} \/ fetches > 0) => Len(written) = 1

C17_Witness ==
    /\ pc = "wait"
    /\ Len(written) = 1
    /\ updates = 2

\* C18: the deadline of line 59 bounds the whole run: the command is over
\* less than one poll interval after it, every timeout is that deadline's,
\* and a poll that began late does not run until its own timer.
C18_SingleDeadline ==
    /\ now < ctxDeadline + PollInterval
    /\ err # ErrWaitTimeout
    /\ Result = "TimedOut" => now >= ctxDeadline

C18_Witness ==
    /\ Result = "TimedOut"
    /\ pollTimer > ctxDeadline
    /\ now < pollTimer

\* C19: when the poll succeeds, the controller changed
\* lastHandledReconcileAt after the Update of this invocation.
C19_NoFalseAcknowledgment ==
    (pc = "evaluate" \/ Evaluated) => ackedSinceWrite

\* C20: an attempt meets a Conflict only if the stored Bucket changed after
\* the attempt's Get, so k conflicts take k writes of other actors since
\* the first Get, and a Conflict error BackoffSteps of them.
C20_ConflictNeedsInterference ==
    [][/\ (pc = "update" /\ (pc' = "backoff" \/ err' = ErrConflict)) =>
              /\ store.resourceVersion > bucket.resourceVersion
              /\ store.resourceVersion - firstVersion >= attempts
       /\ (pc = "update" /\ err' = ErrConflict) =>
              store.resourceVersion - firstVersion >= BackoffSteps]_vars

C20_Witness ==
    /\ pc = "backoff"
    /\ attempts = 3
    /\ store.resourceVersion - firstVersion = 3
====
